---- MODULE Spec2Model ----
(***************************************************************************)
(* Model of ssq.py: the record normalisation LotteryDraw.from_api_payload, *)
(* the single page fetcher fetch_draws and the paging aggregator           *)
(* fetch_all_draws.                                                        *)
(*                                                                         *)
(* Representation of Python / JSON values:                                 *)
(*   - a JSON scalar is a tagged record  [t |-> "str", s |-> "7"],         *)
(*     [t |-> "int", n |-> 7] or [t |-> "none"];                           *)
(*   - a JSON array is [t |-> "list", items |-> <<...>>];                  *)
(*   - a JSON object is [t |-> "dict", d |-> f], f a function whose        *)
(*     DOMAIN is the set of keys present;                                  *)
(*   - a raw record item is a function from the keys present to values;    *)
(*   - strings whose characters the code inspects (red, blue, detailsLink) *)
(*     are sequences of one-character strings.                             *)
(***************************************************************************)
EXTENDS Integers, Sequences, FiniteSets, TLC

VARIABLES
    max_pages,      \* fetch_all_draws: parameter max_pages
    page_size,      \* fetch_all_draws: parameter page_size
    pc,             \* position of the running function
    page_no,        \* fetch_all_draws: loop variable
    all_draws,      \* fetch_all_draws: accumulator list
    seen_issues,    \* fetch_all_draws: set of seen issue strings
    requests,       \* HTTP GETs issued so far: <<pageNo, issueCount>>
    served,         \* what the remote API answered to each GET
    result,         \* value returned by fetch_all_draws (NoResult before)
    err,            \* exception that left the running function ("none" if none)
    resp,           \* fetch_draws run on its own: the HTTP response
    fetched,        \* fetch_draws run on its own: its outcome
    payload,        \* from_api_payload run on its own: the raw item
    draw            \* from_api_payload run on its own: the LotteryDraw built

vars == <<max_pages, page_size, pc, page_no, all_draws, seen_issues, requests,
          served, result, err, resp, fetched, payload, draw>>

aggVars == <<max_pages, page_size, page_no, all_draws, seen_issues, requests,
             served, result>>

(***************************************************************************)
(* Bounds of the model.                                                    *)
(***************************************************************************)
MaxPages == 4       \* max_pages ranges over -1 .. MaxPages
MaxPageSize == 2    \* page_size ranges over 1 .. MaxPageSize
MaxTotal == 5       \* raw items the remote API serves in one run, in total
MaxLen == 4         \* length of a number string given to from_api_payload

NoResult == [t |-> "noresult"]
None == [t |-> "none"]
PStr(s) == [t |-> "str", s |-> s]
PInt(n) == [t |-> "int", n |-> n]
JList(xs) == [t |-> "list", items |-> xs]
JDict(f) == [t |-> "dict", d |-> f]

(***************************************************************************)
(* Python helpers.                                                         *)
(***************************************************************************)
\* dict.get(key, default)
Get(d, key, default) == IF key \in DOMAIN d THEN d[key] ELSE default

\* str(v) for the scalar values of the model
Str(v) ==
    CASE v.t = "str" -> v.s
      [] v.t = "int" -> ToString(v.n)
      [] v.t = "none" -> "None"

Whitespace == {" "}

\* index of the first "," of s, 0 if there is none
RECURSIVE FirstComma(_, _)
FirstComma(s, i) ==
    IF i > Len(s) THEN 0
    ELSE IF s[i] = "," THEN i
    ELSE FirstComma(s, i + 1)

\* s.split(",")
RECURSIVE Split(_)
Split(s) ==
    LET i == FirstComma(s, 1)
    IN  IF i = 0 THEN <<s>>
        ELSE <<SubSeq(s, 1, i - 1)>> \o Split(SubSeq(s, i + 1, Len(s)))

RECURSIVE LStrip(_)
LStrip(s) ==
    IF s # <<>> /\ Head(s) \in Whitespace THEN LStrip(Tail(s)) ELSE s

RECURSIVE RStrip(_)
RStrip(s) ==
    IF s # <<>> /\ s[Len(s)] \in Whitespace
    THEN RStrip(SubSeq(s, 1, Len(s) - 1))
    ELSE s

\* s.strip()
Strip(s) == RStrip(LStrip(s))

NonEmpty(x) == x # <<>>

\* variant: the tokens are filtered but kept untrimmed
ParseNumbersUnstripped(raw) == SelectSeq(Split(raw), LAMBDA x : Strip(x) # <<>>)

\* [x.strip() for x in raw.split(",") if x.strip()]
ParseNumbers(raw) ==
    LET parts == Split(raw)
        stripped == [i \in 1..Len(parts) |-> Strip(parts[i])]
    IN  SelectSeq(stripped, NonEmpty)

\* payload.get(a, "") or payload.get(b, "")
GetOr(p, a, b) ==
    IF Get(p, a, <<>>) # <<>> THEN Get(p, a, <<>>) ELSE Get(p, b, <<>>)

HttpPrefix == <<"h", "t", "t", "p">>
SiteOrigin ==
    <<"h", "t", "t", "p", "s", ":", "/", "/", "w", "w", "w", ".", "c", "w", "l",
      ".", "g", "o", "v", ".", "c", "n">>

\* s.startswith(prefix)
StartsWith(s, prefix) ==
    Len(s) >= Len(prefix) /\ SubSeq(s, 1, Len(prefix)) = prefix

DetailsLink(link) ==
    IF link # <<>> /\ ~StartsWith(link, HttpPrefix) THEN SiteOrigin \o link ELSE link

\* LotteryDraw.from_api_payload
from_api_payload(p) ==
    [issue         |-> Str(Get(p, "code", PStr(""))),
     draw_date     |-> Str(Get(p, "date", PStr(""))),
     red_numbers   |-> ParseNumbers(GetOr(p, "red", "redStr")),
     blue_numbers  |-> ParseNumbers(GetOr(p, "blue", "blueStr")),
     sales         |-> Str(Get(p, "sales", PStr(""))),
     pool_money    |-> Str(Get(p, "poolmoney", PStr(""))),
     prize_details |-> Str(Get(p, "content", PStr(""))),
     details_link  |-> DetailsLink(Get(p, "detailsLink", <<>>))]

(***************************************************************************)
(* fetch_draws: one GET, location of the record list, normalisation.       *)
(***************************************************************************)
\* resp.raise_for_status() raises for a 4xx or 5xx status
HttpFailed(status) == status >= 400 /\ status < 600

\* [payload.get("result"), payload.get("list"), payload.get("data")]
Candidates(body) ==
    <<Get(body, "result", None), Get(body, "list", None), Get(body, "data", None)>>

\* the for loop over the candidates; <<>> is the initial value of records
RECURSIVE ScanCandidates(_, _)
ScanCandidates(cands, i) ==
    IF i > Len(cands) THEN <<>>
    ELSE LET c == cands[i]
         IN  IF c.t = "list" THEN c.items
             ELSE IF c.t = "dict"
             THEN IF "list" \in DOMAIN c.d /\ c.d["list"].t = "list"
                  THEN c.d["list"].items
                  ELSE IF "data" \in DOMAIN c.d /\ c.d["data"].t = "list"
                  THEN c.d["data"].items
                  ELSE ScanCandidates(cands, i + 1)
             ELSE ScanCandidates(cands, i + 1)

Normalised(records) == [i \in 1..Len(records) |-> from_api_payload(records[i])]

\* variant: a failed request or a missing list yields an empty page
fetch_draws_swallow(r) ==
    IF HttpFailed(r.status)
    THEN [ok |-> TRUE, err |-> "none", draws |-> <<>>]
    ELSE LET records == ScanCandidates(Candidates(r.body), 1)
         IN  [ok |-> TRUE, err |-> "none", draws |-> Normalised(records)]

\* fetch_draws(issue_count, page_no), given the response r to its GET
fetch_draws(r) ==
    IF HttpFailed(r.status)
    THEN [ok |-> FALSE, err |-> "HTTPError", draws |-> <<>>]
    ELSE LET records == ScanCandidates(Candidates(r.body), 1)
         IN  IF records = <<>>
             THEN [ok |-> FALSE, err |-> "ParseError", draws |-> <<>>]
             ELSE [ok |-> TRUE, err |-> "none", draws |-> Normalised(records)]

(***************************************************************************)
(* fetch_all_draws: the body of one loop iteration.                        *)
(***************************************************************************)
\* variant: every record is appended, seen or not
RECURSIVE AddDrawsNoDedup(_, _, _)
AddDrawsNoDedup(all, seen, page_draws) ==
    IF page_draws = <<>> THEN [all |-> all, seen |-> seen]
    ELSE LET d == Head(page_draws)
         IN  AddDrawsNoDedup(Append(all, d), seen \cup {d.issue}, Tail(page_draws))

\* for d in page_draws: if d.issue not in seen_issues: append, add
RECURSIVE AddDraws(_, _, _)
AddDraws(all, seen, page_draws) ==
    IF page_draws = <<>> THEN [all |-> all, seen |-> seen]
    ELSE LET d == Head(page_draws)
         IN  IF d.issue \notin seen
             THEN AddDraws(Append(all, d), seen \cup {d.issue}, Tail(page_draws))
             ELSE AddDraws(all, seen, Tail(page_draws))

\* variant: the comparison is off by one
ShortPageOffByOne(page_draws, size) == Len(page_draws) + 1 < size

\* len(page_draws) < page_size
ShortPage(page_draws, size) == Len(page_draws) < size

\* variant: the short-page test counts the records newly added
ProcessPageCountNew(all, seen, page_draws, size) ==
    LET st == AddDraws(all, seen, page_draws)
    IN  [all |-> st.all, seen |-> st.seen,
         stop |-> Len(st.all) - Len(all) < size]

\* the dedup loop followed by the short-page test
ProcessPage(all, seen, page_draws, size) ==
    LET st == AddDraws(all, seen, page_draws)
    IN  [all |-> st.all, seen |-> st.seen, stop |-> ShortPage(page_draws, size)]

\* variant: the range runs one page further
InRangeOneMore(p, m) == p >= 1 /\ p < m + 2

\* page_no in range(1, max_pages + 1)
InRange(p, m) == p >= 1 /\ p < m + 1

(***************************************************************************)
(* The remote API: raw items, pages and response envelopes.                *)
(***************************************************************************)
Item7a == ("code" :> PStr("7")) @@ ("date" :> PStr("d1")) @@ ("red" :> <<"1", ",", "2">>)
Item7b == ("code" :> PInt(7)) @@ ("date" :> PStr("d2")) @@ ("redStr" :> <<"3">>)
Item8 == ("code" :> PStr("8")) @@ ("date" :> PStr("d3"))
ItemNoCode == ("date" :> PStr("d4")) @@ ("detailsLink" :> <<"/", "y">>)
ItemEmptyCode == ("code" :> PStr("")) @@ ("date" :> PStr("d5"))

RawItems == {Item7a, Item7b, ItemNoCode, ItemEmptyCode}

SeqsUpTo(S, n) == UNION {[1..k -> S] : k \in 0..n}

Min(a, b) == IF a < b THEN a ELSE b

Statuses == {200, 403}
Shapes == {"result", "data.list", "none"}

\* the JSON body of a response that carries the list L in the given place
Body(shape, L) ==
    CASE shape = "result" -> ("result" :> JList(L)) @@ ("pageNo" :> PInt(1))
      [] shape = "data.list" ->
            ("result" :> PStr("ok")) @@ ("data" :> JDict("list" :> JList(L)))
      [] shape = "none" -> ("message" :> PStr("denied"))

RECURSIVE SumLen(_)
SumLen(ps) == IF ps = <<>> THEN 0 ELSE Len(Head(ps).items) + SumLen(Tail(ps))

(***************************************************************************)
(* fetch_all_draws as a state machine.                                     *)
(***************************************************************************)
Idle ==
    /\ resp = NoResult /\ fetched = NoResult
    /\ payload = NoResult /\ draw = NoResult

Init ==
    /\ max_pages \in (-1)..MaxPages
    /\ page_size \in 1..MaxPageSize
    /\ pc = "loop"
    /\ page_no = 1
    /\ all_draws = <<>>
    /\ seen_issues = {}
    /\ requests = <<>>
    /\ served = <<>>
    /\ result = NoResult
    /\ err = "none"
    /\ Idle

\* top of the loop: the next page number is in range, fetch_draws sends its GET
Request ==
    /\ pc = "loop"
    /\ InRange(page_no, max_pages)
    /\ requests' = Append(requests, <<page_no, page_size>>)
    /\ pc' = "fetching"
    /\ UNCHANGED <<max_pages, page_size, page_no, all_draws, seen_issues, served,
                   result, err, resp, fetched, payload, draw>>

\* the lists a page may carry: at most page_size items (the API caps the page
\* at the requested size) and at most MaxTotal items over the whole run
PagesLeft == SeqsUpTo(RawItems, Min(page_size, MaxTotal - SumLen(served)))

\* the response arrives: rest of fetch_draws, then the rest of the loop body
Respond ==
    /\ pc = "fetching"
    /\ \E status \in Statuses :
       \E shape \in (IF HttpFailed(status) THEN {"none"} ELSE Shapes) :
       \E L \in (IF shape = "none" THEN {<<>>} ELSE PagesLeft) :
          LET out == fetch_draws([status |-> status, body |-> Body(shape, L)])
              st == ProcessPage(all_draws, seen_issues, out.draws, page_size)
          IN  /\ served' = Append(served, [status |-> status,
                                           found |-> shape # "none",
                                           items |-> L])
              /\ IF ~out.ok
                 THEN /\ pc' = "error"
                      /\ err' = out.err
                      /\ UNCHANGED <<all_draws, seen_issues, page_no>>
                 ELSE IF out.draws = <<>>
                 THEN /\ pc' = "after"
                      /\ UNCHANGED <<all_draws, seen_issues, page_no, err>>
                 ELSE /\ all_draws' = st.all
                      /\ seen_issues' = st.seen
                      /\ IF st.stop
                         THEN pc' = "after" /\ page_no' = page_no
                         ELSE pc' = "loop" /\ page_no' = page_no + 1
                      /\ UNCHANGED err
    /\ UNCHANGED <<max_pages, page_size, requests, result, resp, fetched,
                   payload, draw>>

\* range(1, max_pages + 1) is exhausted
LoopEnd ==
    /\ pc = "loop"
    /\ ~InRange(page_no, max_pages)
    /\ pc' = "after"
    /\ UNCHANGED <<max_pages, page_size, page_no, all_draws, seen_issues, requests,
                   served, result, err, resp, fetched, payload, draw>>

\* after the loop: raise on an empty accumulator, else return it
Finish ==
    /\ pc = "after"
    /\ IF all_draws = <<>>
       THEN pc' = "error" /\ err' = "EmptyResult" /\ UNCHANGED result
       ELSE pc' = "done" /\ result' = all_draws /\ UNCHANGED err
    /\ UNCHANGED <<max_pages, page_size, page_no, all_draws, seen_issues, requests,
                   served, resp, fetched, payload, draw>>

Next == Request \/ Respond \/ LoopEnd \/ Finish

Spec == Init /\ [][Next]_vars

\* every fetch ends and the interpreter keeps running the function
FairSpec == Init /\ [][Next]_vars /\ WF_vars(Next)

(***************************************************************************)
(* fetch_draws run on its own, as the __main__ block runs it: one response *)
(* drawn from the envelopes below, one call.                               *)
(***************************************************************************)
\* the empty function: a JSON object without keys
NoKeys == <<>>

OptKey(k, V) == {NoKeys} \cup {k :> v : v \in V}

FetchLists == {<<>>, <<Item7a>>, <<Item8, Item7a>>}

NestedVals == {PStr("x")} \cup {JList(L) : L \in FetchLists}

NestedDicts ==
    {a @@ b : a \in OptKey("list", NestedVals), b \in OptKey("data", NestedVals)}

TopVals ==
    {None, PStr("x")} \cup {JList(L) : L \in FetchLists}
        \cup {JDict(d) : d \in NestedDicts}

FetchBodies ==
    {a @@ b @@ c : a \in OptKey("result", TopVals), b \in OptKey("list", TopVals),
                   c \in OptKey("data", TopVals)}

AggIdle ==
    /\ max_pages = 0 /\ page_size = 1 /\ page_no = 1
    /\ all_draws = <<>> /\ seen_issues = {}
    /\ requests = <<>> /\ served = <<>> /\ result = NoResult

FetchInit ==
    /\ resp \in [status : Statuses, body : FetchBodies]
    /\ fetched = NoResult
    /\ pc = "fetch_draws"
    /\ err = "none"
    /\ payload = NoResult /\ draw = NoResult
    /\ AggIdle

FetchDraws ==
    /\ pc = "fetch_draws"
    /\ LET out == fetch_draws(resp)
       IN  /\ fetched' = out
           /\ err' = out.err
           /\ pc' = IF out.ok THEN "done" ELSE "error"
    /\ UNCHANGED <<resp, payload, draw>>
    /\ UNCHANGED aggVars

FetchNext == FetchDraws

SpecFetch == FetchInit /\ [][FetchNext]_vars

(***************************************************************************)
(* from_api_payload run on its own: one raw item, one call.                *)
(***************************************************************************)
NumberChars == {"1", "2", ",", " "}

Example == <<"1", ",", " ", "2", ",", "3", " ", ",", "4">>

NumberStrings == SeqsUpTo(NumberChars, MaxLen) \cup {Example}

Payloads ==
    {a @@ b @@ c @@ d :
        a \in OptKey("red", NumberStrings),
        b \in OptKey("redStr", {<<"3", ",", "4">>}),
        c \in OptKey("code", {PStr("7"), PInt(7)}),
        d \in OptKey("detailsLink", {<<"/", "y">>, HttpPrefix \o <<":", "/">>})}

NormInit ==
    /\ payload \in Payloads
    /\ draw = NoResult
    /\ pc = "from_api_payload"
    /\ err = "none"
    /\ resp = NoResult /\ fetched = NoResult
    /\ AggIdle

Normalize ==
    /\ pc = "from_api_payload"
    /\ draw' = from_api_payload(payload)
    /\ pc' = "done"
    /\ UNCHANGED <<payload, err, resp, fetched>>
    /\ UNCHANGED aggVars

NormNext == Normalize

SpecNormalize == NormInit /\ [][NormNext]_vars

(***************************************************************************)
(* Reference definitions used by the properties.  They are stated over     *)
(* positions, independently of the loops of the code.                      *)
(***************************************************************************)
KthSmallest(S, k) == CHOOSE x \in S : Cardinality({y \in S : y < x}) = k - 1

SetMin(S) == CHOOSE x \in S : \A y \in S : x <= y
SetMax(S) == CHOOSE x \in S : \A y \in S : y <= x

\* the records of xs whose issue occurs at no earlier position, in order
FirstOccurrences(xs) ==
    LET I == {i \in 1..Len(xs) : \A j \in 1..(i - 1) : xs[j].issue # xs[i].issue}
    IN  [k \in 1..Cardinality(I) |-> xs[KthSmallest(I, k)]]

\* the raw items served by pages 1..n, in page order then in-page order
RECURSIVE RawUpTo(_)
RawUpTo(n) == IF n = 0 THEN <<>> ELSE RawUpTo(n - 1) \o served[n].items

IssuesOf(xs) == {xs[i].issue : i \in 1..Len(xs)}

\* page k was answered with status 2xx and a record list in a known place
ListServed(k) == ~HttpFailed(served[k].status) /\ served[k].found

EmptyPage(k) == ListServed(k) /\ served[k].items = <<>>

Ended == pc \in {"done", "error"}

\* the trimmed comma-separated tokens of s that are not blank, in order
RefTokens(s) ==
    LET n == Len(s)
        Cuts == {0, n + 1} \cup {i \in 1..n : s[i] = ","}
        SegEnd(a) == SetMin({b \in Cuts : b > a})
        Ink(a) == {i \in (a + 1)..(SegEnd(a) - 1) : s[i] \notin Whitespace}
        Starts == {a \in Cuts \ {n + 1} : Ink(a) # {}}
        Token(a) == SubSeq(s, SetMin(Ink(a)), SetMax(Ink(a)))
    IN  [k \in 1..Cardinality(Starts) |-> Token(KthSmallest(Starts, k))]

(***************************************************************************)
(* Properties of fetch_all_draws (specification Spec).                     *)
(***************************************************************************)
\* C1: when fetch_all_draws returns, its result is the concatenation of the
\* pages it fetched with every later record of an already seen issue removed:
\* one record per distinct issue, the first occurrence, in first-occurrence order.
C1_FirstOccurrenceWins ==
    pc = "done" => result = FirstOccurrences(Normalised(RawUpTo(Len(served))))

\* a run that returned after two pages carried different records of one issue
C1_Witness ==
    /\ pc = "done"
    /\ \E i, j \in 1..Len(served) :
          /\ i < j
          /\ \E a \in 1..Len(served[i].items), b \in 1..Len(served[j].items) :
                LET ra == from_api_payload(served[i].items[a])
                    rb == from_api_payload(served[j].items[b])
                IN  /\ ra.issue = rb.issue
                    /\ ra # rb
                    /\ \E n \in 1..Len(result) : result[n] = ra
                    /\ \A n \in 1..Len(result) : result[n] # rb

\* C2: a page answered with a record list of length 0 stops the run without
\* being an error: the call does not fail because of that page and the records
\* of the pages before it are returned.
C2_EmptyPageStopsCleanly ==
    \A k \in 1..Len(served) :
        EmptyPage(k) =>
            /\ err \notin {"HTTPError", "ParseError"}
            /\ (pc = "error" => all_draws = <<>>)
            /\ (pc = "done" => result = FirstOccurrences(Normalised(RawUpTo(k - 1))))

\* C3: once a page has fewer raw items than page_size the loop is left: no
\* later page is requested, and the records of the short page are in the
\* accumulator and in the returned result.
C3_ShortPageStops ==
    \A k \in 1..Len(served) :
        (ListServed(k) /\ Len(served[k].items) < page_size) =>
            /\ k = Len(served)
            /\ Len(requests) = k
            /\ pc \in {"after", "done", "error"}
            /\ (served[k].items # <<>> =>
                    IssuesOf(Normalised(served[k].items)) \subseteq IssuesOf(all_draws))
            /\ (pc = "done" =>
                    IssuesOf(Normalised(served[k].items)) \subseteq IssuesOf(result))

\* a run returned after a short, non-empty page although pages remained
C3_Witness ==
    /\ pc = "done"
    /\ Len(served) >= 2
    /\ Len(served) < max_pages
    /\ served[Len(served)].items # <<>>
    /\ Len(served[Len(served)].items) < page_size
    /\ \E i \in 1..Len(result) :
          result[i] = from_api_payload(served[Len(served)].items[1])

\* C4: a run whose pages all carry zero records fails with the empty-result
\* error, not with a transport or envelope-parse error; and fetch_all_draws
\* never returns an empty sequence.
C4_EmptyResultError ==
    /\ (pc = "done" => result # <<>>)
    /\ ((pc = "error" /\ \A k \in 1..Len(served) : EmptyPage(k)) =>
            err = "EmptyResult")

\* C5: every record returned by fetch_all_draws has a non-empty issue.
C5_IssueNonEmpty ==
    pc = "done" => \A i \in 1..Len(result) : result[i].issue # ""

\* C6: a failed fetch of page k (non-2xx status, or no record list in the
\* envelope) ends the run with that error at once: page k is the last page
\* requested and nothing is returned.
C6_FetchErrorAborts ==
    /\ \A k \in 1..Len(served) :
          (HttpFailed(served[k].status) \/ ~served[k].found) =>
              /\ k = Len(served)
              /\ Len(requests) = k
              /\ pc = "error"
              /\ err = (IF HttpFailed(served[k].status) THEN "HTTPError"
                        ELSE "ParseError")
              /\ result = NoResult
    /\ (err \in {"HTTPError", "ParseError"} =>
            /\ pc = "error"
            /\ result = NoResult
            /\ Len(requests) = Len(served))

\* page k >= 2 failed with a transport error after records were accumulated
C6_Witness ==
    /\ pc = "error"
    /\ err = "HTTPError"
    /\ Len(served) >= 2
    /\ Len(served) < max_pages
    /\ HttpFailed(served[Len(served)].status)
    /\ all_draws # <<>>

C9_Inv ==
    /\ \A i \in 1..Len(requests) : requests[i] = <<i, page_size>>
    /\ Len(requests) <= (IF max_pages < 0 THEN 0 ELSE max_pages)
    /\ Len(served) <= Len(requests)
    /\ Len(requests) <= Len(served) + 1
    /\ (Len(requests) = Len(served) + 1) <=> (pc = "fetching")

\* C9: pages are requested one at a time, numbered 1, 2, 3, ... without gap
\* or repeat, all with the same page_size, at most max_pages of them, and the
\* run ends.
C9_SequentialBoundedPaging == []C9_Inv /\ <>Ended

\* a run that used all of its max_pages >= 2 requests and ended
C9_Witness ==
    /\ Ended
    /\ max_pages >= 2
    /\ Len(requests) = max_pages

\* page k is not empty and every record of it repeats an issue of pages 1..k-1
AllDuplicates(k) ==
    /\ k >= 2
    /\ ListServed(k)
    /\ served[k].items # <<>>
    /\ IssuesOf(Normalised(served[k].items))
          \subseteq IssuesOf(Normalised(RawUpTo(k - 1)))

\* C10: the short-page test counts the raw items of the page, not the records
\* added: a page of duplicates adds nothing, stops the run when it has fewer
\* than page_size items, and lets the run go on to the next page when it has
\* exactly page_size items and pages remain.
C10_RawCountDecides ==
    \A k \in 1..Len(served) :
        AllDuplicates(k) =>
            /\ (k = Len(served) =>
                    all_draws = FirstOccurrences(Normalised(RawUpTo(k - 1))))
            /\ (Len(served[k].items) < page_size =>
                    /\ Len(requests) = k
                    /\ pc \in {"after", "done"})
            /\ ((Len(served[k].items) = page_size /\ k < max_pages) =>
                    \/ Len(requests) > k
                    \/ (pc = "loop" /\ page_no = k + 1))

\* a full page of duplicates was followed by a request, and a short page of
\* duplicates ended the run
C10_Witness ==
    /\ pc = "done"
    /\ \E k \in 2..Len(served) :
          AllDuplicates(k) /\ Len(served[k].items) = page_size /\ Len(requests) > k
    /\ \E k \in 2..Len(served) :
          AllDuplicates(k) /\ Len(served[k].items) < page_size /\ k < max_pages

(***************************************************************************)
(* Properties of fetch_draws (specification SpecFetch).                    *)
(***************************************************************************)
\* the list a candidate value yields: itself, or the list under its nested
\* key "list", else "data"; NoResult if it yields none
Located(v) ==
    IF v.t = "list" THEN v
    ELSE IF v.t = "dict"
    THEN IF Get(v.d, "list", None).t = "list" THEN v.d["list"]
         ELSE IF Get(v.d, "data", None).t = "list" THEN v.d["data"]
         ELSE NoResult
    ELSE NoResult

PriorityKeys == <<"result", "list", "data">>

HitKeys(body) ==
    {i \in 1..Len(PriorityKeys) : Located(Get(body, PriorityKeys[i], None)) # NoResult}

FirstList(body) ==
    Located(Get(body, PriorityKeys[SetMin(HitKeys(body))], None)).items

\* C7: fetch_draws returns the first list found under "result", "list",
\* "data" (a list itself, or the list under the nested key "list" then
\* "data"), in its order; an envelope {"data": {"list": L}} yields the items
\* of L in order, for every list L.
C7_FirstListByPriority ==
    (Ended /\ ~HttpFailed(resp.status)) =>
        /\ (HitKeys(resp.body) # {} =>
                fetched.ok /\ fetched.draws = Normalised(FirstList(resp.body)))
        /\ \A L \in FetchLists :
              resp.body = ("data" :> JDict("list" :> JList(L))) =>
                  fetched.ok /\ fetched.draws = Normalised(L)

(***************************************************************************)
(* Properties of from_api_payload (specification SpecNormalize).           *)
(***************************************************************************)
\* C8: the number list is the sequence of the comma-separated tokens of the
\* string, each trimmed, in order, without the tokens that are blank; no
\* token of the result is empty or padded with whitespace.
C8_NumberTokens ==
    pc = "done" =>
        /\ draw.red_numbers = RefTokens(GetOr(payload, "red", "redStr"))
        /\ \A i \in 1..Len(draw.red_numbers) :
              LET tok == draw.red_numbers[i]
              IN  /\ tok # <<>>
                  /\ tok[1] \notin Whitespace
                  /\ tok[Len(tok)] \notin Whitespace

\* "1, 2,3 ,4" was parsed into "1", "2", "3", "4"
C8_Witness ==
    /\ pc = "done"
    /\ Get(payload, "red", <<>>) = Example
    /\ draw.red_numbers = << <<"1">>, <<"2">>, <<"3">>, <<"4">> >>

====
